---- MODULE Spec2Model ----
(***************************************************************************)
(* Model of the ripgrep_ideas scripts.                                     *)
(*                                                                         *)
(*   rg_script.py : run_ripgrep_search (command builder + runner), main    *)
(*   ripgrep.py   : EndpointMigrationTracker (four search phases,          *)
(*                  _execute_searches, _extract_property_keys,             *)
(*                  generate_migration_report)                             *)
(*                                                                         *)
(* Strings whose characters the code inspects (file paths, line texts,     *)
(* urls, property keys) are sequences of one-character strings; strings    *)
(* the code only passes along or concatenates (flags, regex patterns, the  *)
(* root directory) are TLA+ strings.  Text(s) turns the former into the    *)
(* latter.                                                                 *)
(***************************************************************************)
EXTENDS Integers, Sequences, FiniteSets, TLC

VARIABLES
    pc,              \* control point of the running program
    pattern,         \* run_ripgrep_search: argument pattern
    file_types,      \* run_ripgrep_search: argument file_types
    context_before,  \* run_ripgrep_search: argument context_before
    context_after,   \* run_ripgrep_search: argument context_after
    cmd,             \* the argument list built / handed to subprocess.run
    stdout,          \* result.stdout of the current invocation, as its lines
    li,              \* lines of stdout consumed by the parsing loop
    results,         \* _execute_searches: the mapping file -> matches being built
    exception,       \* the exception that left the program, or "none"
    search_results,  \* _extract_property_keys: its argument (direct_refs of the report)
    property_keys,   \* _extract_property_keys: the set it returns
    commands,        \* _execute_searches: its argument, the batch of commands
    ci,              \* _execute_searches: commands of the batch already processed
    emitted,         \* history: the match records the tool has written in this
                     \* batch, each with the index and exit status of its invocation
    prog,            \* which script runs: "script" (rg_script.py) or "tracker"
    targets,         \* the targets of the run, in order
    ti,              \* targets begun
    tree,            \* the file tree searched: its lines, each with the patterns it matches
    keys_todo,       \* generate_migration_report: property keys still to search, in set order
    prop_refs,       \* generate_migration_report: prop_refs of the last key searched
    http_calls,      \* generate_migration_report: http_calls
    report,          \* generate_migration_report: the report built so far
    out,             \* what the run has printed
    runs,            \* history: subprocess.run calls made by the run
    calls,           \* history: the search phases called for the current report
    not_found        \* history: where the tool was first found missing

cmdVars == <<pattern, file_types, context_before, context_after>>
parseVars == <<stdout, li, results, exception>>
keyVars == <<search_results, property_keys>>
execVars == <<commands, ci, emitted>>
runVars == <<prog, targets, ti, tree, keys_todo, prop_refs, http_calls, report, out,
             runs, calls, not_found>>
vars == <<pc, cmd, cmdVars, parseVars, keyVars, execVars, runVars>>

\* The variables of the parts of the program a specification does not run
IdleCmd ==
    /\ pattern = "" /\ file_types = [none |-> TRUE, tags |-> <<>>]
    /\ context_before = 0 /\ context_after = 0
IdleParse == stdout = <<>> /\ li = 0 /\ results = <<>> /\ exception = "none"
IdleKeys == search_results = <<>> /\ property_keys = {}
IdleExec == commands = <<>> /\ ci = 0 /\ emitted = <<>>
NotYet == [at |-> 0, target |-> 0, printed |-> 0]
IdleRun ==
    /\ prog = "none" /\ targets = <<>> /\ ti = 0 /\ tree = <<>>
    /\ keys_todo = <<>> /\ prop_refs = <<>> /\ http_calls = <<>> /\ report = <<>>
    /\ out = <<>> /\ runs = 0 /\ calls = <<>> /\ not_found = NotYet

----------------------------------------------------------------------------
(* Bounds of the model *)

MaxContext == 11     \* context counts range over -1 .. MaxContext
MaxTypes == 2        \* longest file_types list
MaxLines == 3        \* longest stdout of one invocation in SpecParse
MaxKeyFiles == 2     \* most files in the argument of _extract_property_keys
MaxKeyMatches == 2   \* most Matches per file in that argument
MaxStream == 2       \* longest stdout of one invocation in SpecExec
MaxBatchMatches == 2 \* most match records the tool writes in one batch of SpecExec
MaxTargets == 2      \* most targets of a run
MaxHttp == 4         \* most HTTP-client lines in one file of the tree

----------------------------------------------------------------------------
(* Strings *)

RECURSIVE Text(_)
Text(s) == IF s = <<>> THEN "" ELSE Head(s) \o Text(Tail(s))

Digit(d) == <<"0", "1", "2", "3", "4", "5", "6", "7", "8", "9">>[d + 1]

RECURSIVE NatStr(_)
NatStr(n) == IF n < 10 THEN Digit(n) ELSE NatStr(n \div 10) \o Digit(n % 10)

\* Python's str() of an int
Str(n) == IF n < 0 THEN "-" \o NatStr(0 - n) ELSE NatStr(n)

\* ' '.join(args)
RECURSIVE Join(_)
Join(args) ==
    IF args = <<>> THEN ""
    ELSE IF Len(args) = 1 THEN args[1]
    ELSE args[1] \o " " \o Join(Tail(args))

----------------------------------------------------------------------------
(* rg_script.py: run_ripgrep_search *)

\* file_types: None, or a list of type tags
NoneTypes == [none |-> TRUE, tags |-> <<>>]
SomeTypes(t) == [none |-> FALSE, tags |-> t]

OutputFlags == <<"rg", "--no-heading", "--line-number", "--color=never">>

ContextFlagsNonNegative(cb, ca) ==
    (IF cb >= 0 THEN <<"-B", Str(cb)>> ELSE <<>>)
        \o (IF ca >= 0 THEN <<"-A", Str(ca)>> ELSE <<>>)

ContextFlags(cb, ca) ==
    (IF cb > 0 THEN <<"-B", Str(cb)>> ELSE <<>>)
        \o (IF ca > 0 THEN <<"-A", Str(ca)>> ELSE <<>>)

RECURSIVE TagFlags(_)
TagFlags(tags) ==
    IF tags = <<>> THEN <<>> ELSE <<"-t", Head(tags)>> \o TagFlags(Tail(tags))

\* "if file_types:" is false for None and for the empty list
TypeFlags(ft) == IF ft.none \/ ft.tags = <<>> THEN <<>> ELSE TagFlags(ft.tags)

BuildCmd(p, ft, cb, ca) ==
    Append(OutputFlags \o ContextFlags(cb, ca) \o TypeFlags(ft), p)

\* What subprocess.run can do with an argument list
RunOutcomes == {"completed", "FileNotFoundError", "PermissionError"}

----------------------------------------------------------------------------
(* SpecCmd: run_ripgrep_search on arbitrary arguments *)

CmdPatterns == {"/v1/cca", "cca", "-B"}
TypeTags == {"java", "py"}
TagSeqs == UNION {[1..n -> TypeTags] : n \in 0..MaxTypes}
FileTypeArgs == {NoneTypes} \cup {SomeTypes(t) : t \in TagSeqs}
ContextArgs == (0 - 1)..MaxContext

InitCmd ==
    /\ pc = "call"
    /\ pattern \in CmdPatterns
    /\ file_types \in FileTypeArgs
    /\ context_before \in ContextArgs
    /\ context_after \in ContextArgs
    /\ cmd = <<>>
    /\ IdleParse /\ IdleKeys /\ IdleExec /\ IdleRun

\* lines 10-24
Build ==
    /\ pc = "call"
    /\ cmd' = BuildCmd(pattern, file_types, context_before, context_after)
    /\ pc' = "run"
    /\ UNCHANGED <<cmdVars, parseVars, keyVars, execVars, runVars>>

\* lines 26-31
Run ==
    /\ pc = "run"
    /\ \E o \in RunOutcomes :
          pc' = CASE o = "completed" -> "returned"
                  [] o = "FileNotFoundError" -> "exit1"
                  [] OTHER -> "raised"
    /\ UNCHANGED <<cmd, cmdVars, parseVars, keyVars, execVars, runVars>>

NextCmd == Build \/ Run

SpecCmd == InitCmd /\ [][NextCmd]_vars

\* The decimal numerals of one or two digits, without a leading zero
Numerals == {d \in UNION {[1..n -> 0..9] : n \in 1..2} : Len(d) = 1 \/ d[1] # 0}
NumeralValue(d) == IF Len(d) = 1 THEN d[1] ELSE 10 * d[1] + d[2]
NumeralText(d) == IF Len(d) = 1 THEN Digit(d[1]) ELSE Digit(d[1]) \o Digit(d[2])
IsDecimalOf(s, n) == \E d \in Numerals : NumeralValue(d) = n /\ NumeralText(d) = s

GivenTags == IF file_types.none THEN <<>> ELSE file_types.tags

\* cmd between the output-mode flags and the file-type flags
ContextSegment == SubSeq(cmd, 5, Len(cmd) - 1 - 2 * Len(GivenTags))

\* C9: once run_ripgrep_search has built its command, the command is the four
\* output-mode flags, then the context segment, then one "-t" tag pair per
\* file type in caller order (none for None or an empty list), then the
\* pattern as the final argument; the context segment holds no "-B" when
\* context_before <= 0 and no "-A" when context_after <= 0, and for a positive
\* count N it holds the flag immediately followed by the decimal string of N.
C9_CommandShape ==
    pc # "call" =>
        LET n == Len(cmd)
            nt == Len(GivenTags)
            ctx == ContextSegment
            nb == IF context_before > 0 THEN 2 ELSE 0
            na == IF context_after > 0 THEN 2 ELSE 0
        IN  /\ n = 5 + nb + na + 2 * nt
            /\ SubSeq(cmd, 1, 4) = OutputFlags
            /\ cmd[n] = pattern
            /\ \A i \in 1..nt :
                  /\ cmd[4 + nb + na + 2 * i - 1] = "-t"
                  /\ cmd[4 + nb + na + 2 * i] = GivenTags[i]
            /\ context_before <= 0 => \A i \in 1..Len(ctx) : ctx[i] # "-B"
            /\ context_after <= 0 => \A i \in 1..Len(ctx) : ctx[i] # "-A"
            /\ context_before > 0 =>
                  ctx[1] = "-B" /\ IsDecimalOf(ctx[2], context_before)
            /\ context_after > 0 =>
                  ctx[nb + 1] = "-A" /\ IsDecimalOf(ctx[nb + 2], context_after)

\* C9 witness: a positive before-count of two digits, a zero after-count and
\* two file types.
C9_Witness ==
    /\ pc = "returned"
    /\ context_before = 10 /\ context_after = 0
    /\ file_types = SomeTypes(<<"java", "py">>)
    /\ cmd = <<"rg", "--no-heading", "--line-number", "--color=never",
               "-B", "10", "-t", "java", "-t", "py", pattern>>

----------------------------------------------------------------------------
(* ripgrep.py: parsing one invocation's JSON-mode output (lines 144-164) *)

\* File paths and line texts, character by character
P_yml == <<"c", ".", "y", "m", "l">>
P_java == <<"A", ".", "j", "a", "v", "a">>
T_prop == <<"k", "=", "a", "/", "b">>
T_call == <<"g", "e", "t", "(", "k", ")">>

\* One line of stdout, by what json.loads makes of it:
\*   json = "empty"   the empty string (never handed to json.loads)
\*   json = "invalid" json.loads raises JSONDecodeError
\*   json = "value"   valid JSON that is no object (a number, a list, null)
\*   json = "object"  a record of the tool, with its "type"; has_text says
\*                    whether data.path.text and data.lines.text are present
\*                    (the tool writes "bytes" instead for non-UTF-8 data)
Record(type, p, n, t, ok) ==
    [json |-> "object", type |-> type, path |-> p, line_number |-> n, text |-> t,
     has_text |-> ok]
MatchRecord(p, n, t) == Record("match", p, n, t, TRUE)
ContextRecord(p, n, t) == Record("context", p, n, t, TRUE)
BeginRecord(p) == Record("begin", p, 0, <<>>, TRUE)
EndRecord(p) == Record("end", p, 0, <<>>, TRUE)
SummaryRecord == Record("summary", <<>>, 0, <<>>, TRUE)
BytesMatchRecord(p, n) == Record("match", p, n, <<>>, FALSE)
OtherLine(j) ==
    [json |-> j, type |-> "", path |-> <<>>, line_number |-> 0, text |-> <<>>,
     has_text |-> FALSE]
EmptyLine == OtherLine("empty")
InvalidLine == OtherLine("invalid")
ValueLine == OtherLine("value")

\* line 161: ' '.join(cmd[2:])
PatternField(c) == Join(SubSeq(c, 3, Len(c)))

\* lines 158-162
MatchOf(line, c) ==
    [line |-> line.line_number, content |-> line.text, pattern |-> PatternField(c)]

HasEntry(res, p) == \E i \in 1..Len(res) : res[i].file = p

\* a mapping that keeps one Match per line of a file
AddMatchOnce(res, p, m) ==
    IF \E i \in 1..Len(res) : res[i].file = p
    THEN [i \in 1..Len(res) |->
            IF res[i].file = p
               /\ \A k \in 1..Len(res[i].matches) : res[i].matches[k].line # m.line
            THEN [res[i] EXCEPT !.matches = Append(@, m)]
            ELSE res[i]]
    ELSE Append(res, [file |-> p, matches |-> <<m>>])

\* lines 155-162: results is a dict, kept here in insertion order
AddMatch(res, p, m) ==
    IF HasEntry(res, p)
    THEN [i \in 1..Len(res) |->
            IF res[i].file = p
            THEN [res[i] EXCEPT !.matches = Append(@, m)]
            ELSE res[i]]
    ELSE Append(res, [file |-> p, matches |-> <<m>>])

IsMatchOrContext(line) == line.type \in {"match", "context"}

\* line 150
IsMatch(line) == line.type = "match"

\* lines 147-164, one iteration of the loop over the lines: the mapping
\* afterwards and the exception that leaves the loop, if any
LineStep(res, c, line) ==
    CASE line.json = "empty" -> [results |-> res, exc |-> "none"]
      [] line.json = "invalid" -> [results |-> res, exc |-> "none"]
      [] line.json = "value" -> [results |-> res, exc |-> "AttributeError"]
      [] OTHER ->
            IF ~IsMatch(line) THEN [results |-> res, exc |-> "none"]
            ELSE IF ~line.has_text THEN [results |-> res, exc |-> "KeyError"]
            ELSE [results |-> AddMatch(res, line.path, MatchOf(line, c)),
                  exc |-> "none"]

\* lines 144-164, the whole loop
RECURSIVE ParseStdout(_, _, _)
ParseStdout(res, c, lines) ==
    IF lines = <<>> THEN [results |-> res, exc |-> "none"]
    ELSE LET r == LineStep(res, c, Head(lines))
         IN  IF r.exc # "none" THEN r ELSE ParseStdout(r.results, c, Tail(lines))

----------------------------------------------------------------------------
(* SpecParse: the parsing loop on arbitrary output streams *)

ParseLines ==
    { MatchRecord(P_yml, 1, T_prop), MatchRecord(P_java, 4, T_call),
      ContextRecord(P_java, 3, T_call), BeginRecord(P_java), SummaryRecord,
      BytesMatchRecord(P_java, 5), EmptyLine, InvalidLine, ValueLine }
ParseStreams == UNION {[1..n -> ParseLines] : n \in 0..MaxLines}
ParseCmds == { <<"rg", "--json", "-i", "a/b", ".">>,
               <<"rg", "--json", "-e", "get.*k", "-g", "*.{java,py,kt,scala}", ".">> }
EarlierResults ==
    { <<>>,
      << [file |-> P_java,
          matches |-> << [line |-> 9, content |-> T_call, pattern |-> "-i b ."] >> ] >> }

InitParse ==
    /\ pc = "parsing"
    /\ cmd \in ParseCmds
    /\ stdout \in ParseStreams
    /\ li = 0
    /\ results \in EarlierResults
    /\ exception = "none"
    /\ IdleCmd /\ IdleKeys /\ IdleExec /\ IdleRun

\* lines 146-164: one line of the stream
ParseLine ==
    /\ pc = "parsing"
    /\ li < Len(stdout)
    /\ LET r == LineStep(results, cmd, stdout[li + 1])
       IN  /\ results' = r.results
           /\ exception' = r.exc
           /\ pc' = IF r.exc = "none" THEN "parsing" ELSE "raised"
    /\ li' = li + 1
    /\ UNCHANGED <<cmd, stdout, cmdVars, keyVars, execVars, runVars>>

\* the loop ends
ParseEnd ==
    /\ pc = "parsing"
    /\ li = Len(stdout)
    /\ pc' = "parsed"
    /\ UNCHANGED <<cmd, cmdVars, parseVars, keyVars, execVars, runVars>>

NextParse == ParseLine \/ ParseEnd

SpecParse == InitParse /\ [][NextParse]_vars

\* The stream is made of well-formed tool records, non-JSON lines and empty
\* lines only
ToolStream(lines) ==
    \A i \in 1..Len(lines) :
        /\ lines[i].json # "value"
        /\ lines[i].json = "object" => lines[i].has_text

RECURSIVE NumMatches(_)
NumMatches(res) ==
    IF res = <<>> THEN 0 ELSE Len(Head(res).matches) + NumMatches(Tail(res))

MatchesOf(res, p) ==
    IF HasEntry(res, p)
    THEN (CHOOSE e \in {res[i] : i \in 1..Len(res)} : e.file = p).matches
    ELSE <<>>

EmittedFor(lines, p) ==
    LET hit(line) == line.json = "object" /\ line.type = "match" /\ line.path = p
        sel == SelectSeq(lines, hit)
    IN  [i \in 1..Len(sel) |-> [line |-> sel[i].line_number, content |-> sel[i].text]]

Stripped(ms) == [i \in 1..Len(ms) |-> [line |-> ms[i].line, content |-> ms[i].content]]

\* The Matches of file p that carry the running invocation's pattern field
\* (the earlier invocation of EarlierResults carries another one)
NewMatchesOf(res, p) ==
    LET mine(m) == m.pattern = PatternField(cmd)
    IN  SelectSeq(MatchesOf(res, p), mine)

\* C3: for an output stream of tool records, non-JSON lines and empty lines,
\* the parsing loop never raises, and after any number of lines the Matches
\* added are exactly the records of type "match" among the lines consumed,
\* file by file in the order the lines were emitted; non-JSON lines and
\* non-match records add nothing.
C3_MatchesAreMatchRecords ==
    ToolStream(stdout) =>
        LET seen == SubSeq(stdout, 1, li)
            new == Len(NewMatchesOf(results, P_yml)) + Len(NewMatchesOf(results, P_java))
        IN  /\ pc # "raised"
            /\ \A i \in 1..Len(results) : results[i].file \in {P_yml, P_java}
            /\ \A p \in {P_yml, P_java} :
                  Stripped(NewMatchesOf(results, p)) = EmittedFor(seen, p)
            /\ new = Cardinality({i \in 1..li :
                        stdout[i].json = "object" /\ stdout[i].type = "match"})

\* C3 witness: a non-JSON line between two match records, a non-match record
\* after them, all three lines parsed and both Matches kept.
C3_Witness ==
    /\ pc = "parsed"
    /\ stdout = <<MatchRecord(P_java, 4, T_call), InvalidLine,
                  MatchRecord(P_yml, 1, T_prop)>>
    /\ NumMatches(results) = 2
    /\ results[1].file = P_java /\ results[2].file = P_yml

----------------------------------------------------------------------------
(* ripgrep.py: _extract_property_keys (lines 207-223) *)

IsSubstring(sub, s) ==
    \E i \in 1..(Len(s) - Len(sub) + 1) : SubSeq(s, i, i + Len(sub) - 1) = sub

EndsWith(s, suffix) ==
    Len(suffix) <= Len(s) /\ SubSeq(s, Len(s) - Len(suffix) + 1, Len(s)) = suffix

\* "c in content"
HasChar(s, c) == \E i \in 1..Len(s) : s[i] = c

\* content.split(c)[0]
BeforeFirst(s, c) ==
    IF HasChar(s, c)
    THEN SubSeq(s, 1, (CHOOSE i \in 1..Len(s) :
                          s[i] = c /\ \A j \in 1..(i - 1) : s[j] # c) - 1)
    ELSE s

Whitespace == {" ", "\t", "\n", "\r"}

\* str.strip()
RECURSIVE LStrip(_)
LStrip(s) == IF s # <<>> /\ Head(s) \in Whitespace THEN LStrip(Tail(s)) ELSE s
RECURSIVE RStrip(_)
RStrip(s) ==
    IF s # <<>> /\ s[Len(s)] \in Whitespace THEN RStrip(SubSeq(s, 1, Len(s) - 1)) ELSE s
Strip(s) == RStrip(LStrip(s))

Ext_properties == <<".", "p", "r", "o", "p", "e", "r", "t", "i", "e", "s">>
Ext_yml == <<".", "y", "m", "l">>
Ext_yaml == <<".", "y", "a", "m", "l">>
Ext_json == <<".", "j", "s", "o", "n">>
Ext_conf == <<".", "c", "o", "n", "f">>
Ext_ini == <<".", "i", "n", "i">>
Ext_env == <<".", "e", "n", "v">>

\* line 212: the extensions the extractor looks for
ExtractorExts == {Ext_properties, Ext_yml, Ext_yaml, Ext_env}

\* line 212: any(ext in file_path for ext in [...])
IsConfigFile(p) == \E ext \in ExtractorExts : IsSubstring(ext, p)

\* lines 215-221: the keys one Match adds
KeysOfMatch(m) ==
    IF HasChar(m.content, "=") THEN {Strip(BeforeFirst(m.content, "="))}
    ELSE IF HasChar(m.content, ":") THEN {Strip(BeforeFirst(m.content, ":"))}
    ELSE {}

\* lines 209-223
ExtractPropertyKeys(sr) ==
    UNION { UNION { KeysOfMatch(sr[i].matches[j]) : j \in 1..Len(sr[i].matches) } :
              i \in { k \in 1..Len(sr) : IsConfigFile(sr[k].file) } }

----------------------------------------------------------------------------
(* SpecKeys: _extract_property_keys on arbitrary search results *)

P_json == <<"c", ".", "j", "s", "o", "n">>
P_bak == <<"c", ".", "y", "m", "l", "~">>
T_yaml == <<"j", ":", " ", "b">>
T_nokey == <<"=", "b">>
T_padded == <<" ", "k", " ", "=", "b", "\n">>

KeyPaths == {P_yml, P_json, P_java, P_bak}
KeyTexts == {T_prop, T_yaml, T_call, T_nokey, T_padded}
KeyMatches == {[line |-> 1, content |-> t, pattern |-> "-i a/b ."] : t \in KeyTexts}
KeyEntries ==
    {[file |-> p, matches |-> ms] :
        p \in KeyPaths, ms \in UNION {[1..n -> KeyMatches] : n \in 1..MaxKeyMatches}}
\* a dict: no file twice
KeyResults ==
    {sr \in UNION {[1..n -> KeyEntries] : n \in 0..MaxKeyFiles} :
        \A i, j \in 1..Len(sr) : i # j => sr[i].file # sr[j].file}

InitKeys ==
    /\ pc = "call"
    /\ search_results \in KeyResults
    /\ property_keys = {}
    /\ cmd = <<>>
    /\ IdleCmd /\ IdleParse /\ IdleExec /\ IdleRun

\* lines 207-223
ExtractKeys ==
    /\ pc = "call"
    /\ property_keys' = ExtractPropertyKeys(search_results)
    /\ pc' = "returned"
    /\ UNCHANGED <<cmd, cmdVars, parseVars, search_results, execVars, runVars>>

\* the caller's "if property_keys:" (line 185)
TestKeys ==
    /\ pc = "returned"
    /\ pc' = IF property_keys # {} THEN "keys found" ELSE "no keys"
    /\ UNCHANGED <<cmd, cmdVars, parseVars, keyVars, execVars, runVars>>

NextKeys == ExtractKeys \/ TestKeys

SpecKeys == InitKeys /\ [][NextKeys]_vars

\* The recognized configuration extensions
ConfigExts == {Ext_properties, Ext_yml, Ext_yaml, Ext_json, Ext_conf, Ext_ini, Ext_env}
EndsInConfigExt(p) == \E ext \in ConfigExts : EndsWith(p, ext)

AllMatchesIn(sr, Considered(_)) ==
    UNION { {sr[i].matches[j] : j \in 1..Len(sr[i].matches)} :
              i \in {k \in 1..Len(sr) : Considered(sr[k].file)} }

\* C5: the extractor considers a Match if and only if its file path ends in
\* one of the recognized configuration extensions: the returned set is what
\* the Matches of exactly those files give.
C5_ConsidersFilesEndingInConfigExt ==
    pc # "call" =>
        property_keys
            = UNION {KeysOfMatch(m) : m \in AllMatchesIn(search_results, EndsInConfigExt)}

\* The key the claim gives a line: the text before the first "=", trimmed, if
\* the line has one, else the text before the first ":", trimmed, if it has
\* one, else none; an empty key is no key.
ClaimedKeys(content) ==
    LET k == IF HasChar(content, "=") THEN Strip(BeforeFirst(content, "="))
             ELSE IF HasChar(content, ":") THEN Strip(BeforeFirst(content, ":"))
             ELSE <<>>
    IN  IF k = <<>> THEN {} ELSE {k}

\* C6: the returned set holds, for the Matches of the files the extractor
\* looks at, exactly the keys of the rule above, so only non-empty keys.
C6_KeysAreNonEmptyAndByRule ==
    pc # "call" =>
        /\ <<>> \notin property_keys
        /\ property_keys
             = UNION {ClaimedKeys(m.content) : m \in AllMatchesIn(search_results, IsConfigFile)}

----------------------------------------------------------------------------
(* ripgrep.py: the four search phases (lines 14-135) *)

\* self.project_root
project_root == "."

\* s.split(c)[-1]
AfterLast(s, c) ==
    IF HasChar(s, c)
    THEN SubSeq(s, (CHOOSE i \in 1..Len(s) :
                       s[i] = c /\ \A j \in (i + 1)..Len(s) : s[j] # c) + 1, Len(s))
    ELSE s

ConfigGlob == "*.{properties,yml,yaml,json,conf,ini,env}"
SourceGlob == "*.{java,py,kt,scala}"
JvmGlob == "*.{java,kt,scala}"
PyGlob == "*.py"

\* lines 16-27
search_literal_urls(url) ==
    << <<"rg", "--json", "-i", Text(url), project_root>>,
       <<"rg", "--json", "-i", Text(AfterLast(url, "/")), project_root>>,
       <<"rg", "--json", "-g", ConfigGlob, Text(url), project_root>> >>

\* lines 32-44
PropertyPatterns(property_key) ==
    << "@Value.*" \o Text(property_key),
       "getProperty.*" \o Text(property_key),
       "getString.*" \o Text(property_key),
       "properties\\.get.*" \o Text(property_key),
       "config\\[.*" \o Text(property_key) \o ".*\\]",
       "os\\.environ.*" \o Text(property_key),
       "settings\\." \o Text(property_key),
       "get.*" \o Text(property_key) >>

\* lines 46-51
search_property_references(property_key) ==
    [i \in 1..Len(PropertyPatterns(property_key)) |->
        <<"rg", "--json", "-e", PropertyPatterns(property_key)[i],
          "-g", SourceGlob, project_root>>]

\* lines 57-78
java_patterns ==
    << "restTemplate\\.(get|post|put|delete|exchange)ForObject",
       "restTemplate\\.exchange",
       "webClient\\..*\\.(get|post|put|delete)\\(\\)",
       "HttpGet|HttpPost|HttpPut|HttpDelete",
       "httpClient\\.execute",
       "Request\\.Builder\\(\\)",
       "okHttpClient\\.newCall",
       "@(GET|POST|PUT|DELETE)\\(",
       "@Path\\(" >>

\* lines 80-97
python_patterns ==
    << "requests\\.(get|post|put|delete|patch)",
       "urllib\\.request\\.urlopen",
       "urllib2\\.urlopen",
       "httpx\\.(get|post|put|delete)",
       "session\\.(get|post|put|delete)",
       "aiohttp\\.ClientSession",
       "client\\.(get|post|put|delete)" >>

\* lines 99-113
search_http_calls ==
    [i \in 1..Len(java_patterns) |->
        <<"rg", "--json", "-e", java_patterns[i], "-g", JvmGlob,
          "-A", "5", "-B", "2", project_root>>]
    \o [i \in 1..Len(python_patterns) |->
        <<"rg", "--json", "-e", python_patterns[i], "-g", PyGlob,
          "-A", "5", "-B", "2", project_root>>]

\* re.escape: the characters it puts a backslash before
RegexSpecial ==
    {"(", ")", "[", "]", "{", "}", "?", "*", "+", "-", "|", "^", "$", "\\", ".",
     "&", "~", "#", " ", "\t", "\n", "\r"}

\* line 119: re.escape(variable_name)
RECURSIVE ReEscape(_)
ReEscape(s) ==
    IF s = <<>> THEN ""
    ELSE (IF Head(s) \in RegexSpecial THEN "\\" \o Head(s) ELSE Head(s))
            \o ReEscape(Tail(s))

\* lines 121-135
trace_variable_usage(variable_name) ==
    LET clean_var == ReEscape(variable_name)
    IN  << <<"rg", "--json", clean_var \o "\\s*=", "-g", SourceGlob,
             "-B", "2", "-A", "3", project_root>>,
           <<"rg", "--json", clean_var \o "\\.", "-g", SourceGlob,
             "-B", "2", "-A", "3", project_root>>,
           <<"rg", "--json", "\\(" \o clean_var \o "[,\\)]", "-g", SourceGlob,
             "-B", "2", "-A", "3", project_root>> >>

----------------------------------------------------------------------------
(* ripgrep.py: _execute_searches (lines 137-168) *)

SwallowsEverything(exc) == TRUE

\* lines 165-166: the exceptions of subprocess.run the loop catches
Swallowed(exc) == exc = "CalledProcessError"

\* What one subprocess.run(cmd, capture_output=True, text=True) can do: raise
\* (no check=True, so never CalledProcessError), or complete with an exit
\* status and the lines of stdout
Raises(e) == [exc |-> e, returncode |-> 0, stdout |-> <<>>]
Completes(rc, lines) == [exc |-> "none", returncode |-> rc, stdout |-> lines]

IsMatchRecord(line) == line.json = "object" /\ line.type = "match"
MatchRecords(lines) == SelectSeq(lines, IsMatchRecord)

\* the history entries of one invocation's output
EmittedBy(i, o) ==
    LET ms == MatchRecords(o.stdout)
    IN  [k \in 1..Len(ms) |->
            [inv |-> i, returncode |-> o.returncode, path |-> ms[k].path,
             line_number |-> ms[k].line_number, text |-> ms[k].text]]

\* lines 141-166, one iteration of the loop over the commands, subprocess.run
\* doing o
Invocation(o) ==
    /\ cmd' = commands[ci + 1]
    /\ stdout' = o.stdout
    /\ emitted' = emitted \o EmittedBy(ci + 1, o)
    /\ LET r == IF o.exc # "none" THEN [results |-> results, exc |-> o.exc]
                ELSE ParseStdout(results, commands[ci + 1], o.stdout)
       IN  IF r.exc = "none" \/ Swallowed(r.exc)
           THEN /\ results' = r.results
                /\ ci' = ci + 1
                /\ UNCHANGED <<pc, exception>>
           ELSE /\ exception' = r.exc
                /\ pc' = "raised"
                /\ UNCHANGED <<results, ci>>
    /\ UNCHANGED <<li, commands>>

\* lines 141 and 168: the loop is over, the mapping is returned
BatchDone == ci = Len(commands)

----------------------------------------------------------------------------
(* The search tool's reading of a command line (the pattern it searches for) *)

RgSwitches == {"--json", "-i", "--no-heading", "--line-number", "--color=never"}
RgOptions == {"-g", "-A", "-B", "-t"}

RECURSIVE RgParse(_, _)
RgParse(args, acc) ==
    IF args = <<>> THEN acc
    ELSE IF Head(args) \in RgSwitches THEN RgParse(Tail(args), acc)
    ELSE IF Head(args) = "-e" /\ Len(args) >= 2
         THEN RgParse(Tail(Tail(args)), [acc EXCEPT !.e = Append(@, args[2])])
    ELSE IF Head(args) = "-g" /\ Len(args) >= 2
         THEN RgParse(Tail(Tail(args)), [acc EXCEPT !.globs = Append(@, args[2])])
    ELSE IF Head(args) = "-t" /\ Len(args) >= 2
         THEN RgParse(Tail(Tail(args)), [acc EXCEPT !.types = Append(@, args[2])])
    ELSE IF Head(args) \in RgOptions /\ Len(args) >= 2
         THEN RgParse(Tail(Tail(args)), [acc EXCEPT !.context = TRUE])
    ELSE RgParse(Tail(args), [acc EXCEPT !.positional = Append(@, Head(args))])

RgArgs(c) ==
    RgParse(Tail(c), [e |-> <<>>, globs |-> <<>>, types |-> <<>>, context |-> FALSE,
                      positional |-> <<>>])

\* the pattern: the -e argument, or else the first positional argument
RgPattern(c) ==
    IF RgArgs(c).e # <<>> THEN RgArgs(c).e[1] ELSE RgArgs(c).positional[1]

----------------------------------------------------------------------------
(* SpecExec: one call of a search phase, the tool answering anything *)

U_ab == <<"a", "/", "b">>
U_ac == <<"a", "/", "c">>
K_k == <<"k">>
V_ab == <<"a", ".", "b">>

ExecBatches ==
    { <<>>, search_literal_urls(U_ab), search_property_references(K_k),
      search_http_calls, trace_variable_usage(V_ab) }
\* (streams with other lines are the subject of SpecParse)
ExecLines == {MatchRecord(P_yml, 1, T_prop), MatchRecord(P_java, 4, T_call)}
ExecStreams == UNION {[1..n -> ExecLines] : n \in 0..MaxStream}

\* the tool exits 0 when it found a match, 1 when it found none, 2 on an
\* error (what it found before the error is on stdout)
ExecOutcomes ==
    {Raises("FileNotFoundError"), Raises("PermissionError")}
    \cup {Completes(IF MatchRecords(s) = <<>> THEN 1 ELSE 0, s) : s \in ExecStreams}
    \cup {Completes(2, s) : s \in ExecStreams}

InitExec ==
    /\ pc = "executing"
    /\ commands \in ExecBatches
    /\ ci = 0
    /\ emitted = <<>>
    /\ cmd = <<>>
    /\ IdleCmd /\ IdleParse /\ IdleKeys /\ IdleRun

\* lines 141-166: the next command of the batch
ExecInvoke ==
    /\ pc = "executing"
    /\ ~BatchDone
    /\ \E o \in ExecOutcomes :
          /\ Len(emitted) + Len(MatchRecords(o.stdout)) <= MaxBatchMatches
          /\ Invocation(o)
    /\ UNCHANGED <<cmdVars, keyVars, runVars>>

\* line 168
ExecReturn ==
    /\ pc = "executing"
    /\ BatchDone
    /\ pc' = "returned"
    /\ UNCHANGED <<cmd, cmdVars, parseVars, keyVars, execVars, runVars>>

NextExec == ExecInvoke \/ ExecReturn

SpecExec == InitExec /\ [][NextExec]_vars

EmittedPaths == {emitted[k].path : k \in 1..Len(emitted)}

EmittedMatchesFor(p) ==
    LET hit(e) == e.path = p
        sel == SelectSeq(emitted, hit)
    IN  [k \in 1..Len(sel) |-> [line |-> sel[k].line_number, content |-> sel[k].text]]

InvocationOf(p, k) ==
    LET hit(e) == e.path = p
    IN  SelectSeq(emitted, hit)[k].inv

\* C10: every Match carries, as its pattern field, the search pattern of the
\* invocation that reported it, and nothing else of that command line.
C10_PatternFieldIsThePattern ==
    pc # "raised" =>
        \A i \in 1..Len(results) :
            \A k \in 1..Len(results[i].matches) :
                results[i].matches[k].pattern
                    = RgPattern(commands[InvocationOf(results[i].file, k)])

\* C2: no failure of an invocation other than the tool being unavailable
\* leaves _execute_searches, and an invocation that exits non-zero
\* contributes no Match.
C2_OtherFailuresAreSwallowed ==
    /\ exception \in {"none", "FileNotFoundError"}
    /\ pc # "raised" =>
          NumMatches(results)
              = Cardinality({k \in 1..Len(emitted) : emitted[k].returncode = 0})

----------------------------------------------------------------------------
(* The search tool on a file tree: what subprocess.run returns when the     *)
(* tool is there.  A line of the tree names the patterns that match it.     *)

Ext_java == <<".", "j", "a", "v", "a">>
Ext_py == <<".", "p", "y">>
Ext_kt == <<".", "k", "t">>
Ext_scala == <<".", "s", "c", "a", "l", "a">>

GlobExts(g) ==
    CASE g = ConfigGlob -> ConfigExts
      [] g = SourceGlob -> {Ext_java, Ext_py, Ext_kt, Ext_scala}
      [] g = JvmGlob -> {Ext_java, Ext_kt, Ext_scala}
      [] g = PyGlob -> {Ext_py}
      [] OTHER -> {}

TypeExts(t) ==
    CASE t = "java" -> {Ext_java}
      [] t = "py" -> {Ext_py}
      [] OTHER -> {}

RgSelects(c, l) ==
    LET a == RgArgs(c)
    IN  /\ RgPattern(c) \in l.hits
        /\ a.globs = <<>>
             \/ \E i \in 1..Len(a.globs) :
                    \E ext \in GlobExts(a.globs[i]) : EndsWith(l.path, ext)
        /\ a.types = <<>>
             \/ \E i \in 1..Len(a.types) :
                    \E ext \in TypeExts(a.types[i]) : EndsWith(l.path, ext)

RgHits(tr, c) == LET sel(l) == RgSelects(c, l) IN SelectSeq(tr, sel)

RECURSIVE Concat(_)
Concat(qs) == IF qs = <<>> THEN <<>> ELSE Head(qs) \o Concat(Tail(qs))

\* --json: per file a begin record, its match records (each followed by a
\* context record when context lines are asked for) and an end record; a
\* summary record last
RgJson(tr, c) ==
    LET h == RgHits(tr, c)
        seg(k) ==
            (IF k = 1 \/ h[k - 1].path # h[k].path
                THEN <<BeginRecord(h[k].path)>> ELSE <<>>)
            \o <<MatchRecord(h[k].path, h[k].line_number, h[k].text)>>
            \o (IF RgArgs(c).context
                   THEN <<ContextRecord(h[k].path, h[k].line_number + 1, <<>>)>>
                   ELSE <<>>)
            \o (IF k = Len(h) \/ h[k + 1].path # h[k].path
                   THEN <<EndRecord(h[k].path)>> ELSE <<>>)
    IN  Concat([k \in 1..Len(h) |-> seg(k)]) \o <<SummaryRecord>>

\* plain text: one "path:line:text" line per matching line
RgText(tr, c) ==
    LET h == RgHits(tr, c)
    IN  [k \in 1..Len(h) |->
            [path |-> h[k].path, line_number |-> h[k].line_number, text |-> h[k].text]]

RgExit(tr, c) == IF RgHits(tr, c) = <<>> THEN 1 ELSE 0

\* the outcomes of one subprocess.run of c on tree tr
RunOn(tr, c, json) ==
    { Raises("FileNotFoundError"), Raises("PermissionError"),
      Completes(RgExit(tr, c), IF json THEN RgJson(tr, c) ELSE RgText(tr, c)) }

----------------------------------------------------------------------------
(* ripgrep.py: generate_migration_report (lines 170-205) *)

HttpCap == 3

Min(a, b) == IF a <= b THEN a ELSE b

Item(section, kind, name, line, content, keys) ==
    [section |-> section, kind |-> kind, name |-> name, line |-> line,
     content |-> content, keys |-> keys]

\* line 172
ReportHeader(url) == <<Item("header", "title", url, 0, <<>>, {})>>

\* lines 178-180, 193-195, 201-203: one file and the given Matches of it
RenderFile(section, file, ms) ==
    <<Item(section, "file", file, 0, <<>>, {})>>
    \o [k \in 1..Len(ms) |->
          Item(section, "line", file, ms[k].line, Strip(ms[k].content), {})]

\* lines 177-180 and 192-195
RenderAll(section, res) ==
    Concat([i \in 1..Len(res) |-> RenderFile(section, res[i].file, res[i].matches)])

ShownAll(ms) == ms

\* line 202: matches[:3]
Shown(ms) == SubSeq(ms, 1, Min(HttpCap, Len(ms)))

\* lines 200-203
RenderHttp(res) ==
    Concat([i \in 1..Len(res) |->
              RenderFile("http", res[i].file, Shown(res[i].matches))])

KeysFoundAlways(keys) == TRUE

\* line 185: "if property_keys:"
KeysFound(keys) == keys # {}

\* the orders a set can be iterated in
Orders(S) ==
    {q \in [1..Cardinality(S) -> S] : \A i, j \in 1..Len(q) : i # j => q[i] # q[j]}

\* a search phase is called: _execute_searches starts on its commands
StartBatch(phase, arg, cmds) ==
    /\ commands' = cmds
    /\ ci' = 0
    /\ results' = <<>>
    /\ emitted' = <<>>
    /\ calls' = Append(calls, [phase |-> phase, arg |-> arg])
    /\ pc' = phase

\* line 190
StartProperty(key) == StartBatch("property", key, search_property_references(key))

\* line 198
StartHttp == StartBatch("http", <<>>, search_http_calls)

----------------------------------------------------------------------------
(* Spec: whole runs of the two scripts on a file tree *)

\* rg_script.py line 7: the default context counts
DefaultBefore == 2
DefaultAfter == 3

\* rg_script.py line 57
ScriptHttpPattern == "(RestTemplate|requests|HttpClient|WebClient)"

P_py == <<"s", ".", "p", "y">>
T_http == <<"H", "t", "t", "p", "G", "e", "t">>
T_retrofit == <<"@", "G", "E", "T", "(">>
T_requests == <<"r", "e", "q", "u", "e", "s", "t", "s", ".", "g", "e", "t">>
T_endpoint == <<"/", "v", "1", "/", "c", "c", "a">>
T_cca == <<"c", "c", "a">>
T_web == <<"W", "e", "b", "C", "l", "i", "e", "n", "t">>

TreeLine(p, n, t, hits) == [path |-> p, line_number |-> n, text |-> t, hits |-> hits]

\* lines a tree searched by the tracker may hold, with the tracker's patterns
\* that match each
TrackerPool ==
    << TreeLine(P_yml, 1, T_prop, {"a/b", "b"}),
       TreeLine(P_yml, 2, T_yaml, {"b"}),
       TreeLine(P_java, 4, T_call, {"get.*k"}),
       TreeLine(P_java, 9, T_retrofit, {"@(GET|POST|PUT|DELETE)\\("}),
       TreeLine(P_py, 2, T_requests, {"requests\\.(get|post|put|delete|patch)"}) >>

HttpLines(n) ==
    [i \in 1..n |->
        TreeLine(P_java, 10 + i, T_http, {"HttpGet|HttpPost|HttpPut|HttpDelete"})]

\* by path: the config file, the Java file, the Python file
TrackerTree(S, n) ==
    LET in(l) == l \in S
    IN  SelectSeq(SubSeq(TrackerPool, 1, 4), in) \o HttpLines(n)
            \o SelectSeq(SubSeq(TrackerPool, 5, 5), in)

HttpCounts == {0, MaxHttp - 1, MaxHttp}

TrackerTrees ==
    {TrackerTree(S, n) :
        S \in SUBSET {TrackerPool[i] : i \in 1..Len(TrackerPool)}, n \in HttpCounts}

ScriptPool ==
    << TreeLine(P_yml, 5, T_cca, {"cca"}),
       TreeLine(P_java, 8, T_web, {ScriptHttpPattern}),
       TreeLine(P_py, 1, T_endpoint, {"/v1/cca", "cca"}) >>

ScriptTrees ==
    {LET in(l) == l \in S IN SelectSeq(ScriptPool, in) :
        S \in SUBSET {ScriptPool[i] : i \in 1..Len(ScriptPool)}}

Urls == {U_ab, U_ac}
UrlSeqs == UNION {[1..n -> Urls] : n \in 0..MaxTargets}

\* rg_script.py lines 35-39
service_endpoints ==
    { [service_name |-> "cca", endpoint |-> "/v1/cca"],
      [service_name |-> "chats", endpoint |-> "/v1/chat/?cname"] }
EndpointSeqs == UNION {[1..n -> service_endpoints] : n \in 0..MaxTargets}

Init ==
    /\ pc = "main"
    /\ \/ prog = "tracker" /\ targets \in UrlSeqs /\ tree \in TrackerTrees
       \/ prog = "script" /\ targets \in EndpointSeqs /\ tree \in ScriptTrees
    /\ ti = 0
    /\ keys_todo = <<>> /\ prop_refs = <<>> /\ http_calls = <<>> /\ report = <<>>
    /\ out = <<>> /\ runs = 0 /\ calls = <<>> /\ not_found = NotYet
    /\ cmd = <<>>
    /\ IdleCmd /\ IdleParse /\ IdleKeys /\ IdleExec

Printed(q) ==
    Cardinality({i \in 1..Len(q) : q[i].kind \in {"report", "result"}})

NotFoundAt(o) ==
    IF o.exc = "FileNotFoundError" /\ not_found = NotYet
    THEN [at |-> runs + 1, target |-> ti, printed |-> Printed(out)]
    ELSE not_found

\* the caller of the tracker takes the next url; lines 172-175
StartReport ==
    /\ pc = "main"
    /\ prog = "tracker"
    /\ ti < Len(targets)
    /\ ti' = ti + 1
    /\ report' = ReportHeader(targets[ti + 1])
    /\ search_results' = <<>> /\ property_keys' = {}
    /\ keys_todo' = <<>> /\ prop_refs' = <<>> /\ http_calls' = <<>>
    /\ commands' = search_literal_urls(targets[ti + 1])
    /\ ci' = 0 /\ results' = <<>> /\ emitted' = <<>>
    /\ calls' = <<[phase |-> "literal", arg |-> targets[ti + 1]]>>
    /\ pc' = "literal"
    /\ UNCHANGED <<cmd, stdout, li, exception, cmdVars, prog, targets, tree, out, runs,
                   not_found>>

\* lines 141-166: the next command of the running phase
TrackerInvoke ==
    /\ pc \in {"literal", "property", "http"}
    /\ ~BatchDone
    /\ \E o \in RunOn(tree, commands[ci + 1], TRUE) :
          /\ Invocation(o)
          /\ not_found' = NotFoundAt(o)
    /\ runs' = runs + 1
    /\ UNCHANGED <<cmdVars, keyVars, prog, targets, ti, tree, keys_todo, prop_refs,
                   http_calls, report, out, calls>>

\* lines 175-190 and 198: the literal phase has returned
LiteralDone ==
    /\ pc = "literal"
    /\ BatchDone
    /\ search_results' = results
    /\ property_keys' = ExtractPropertyKeys(results)
    /\ LET keys == ExtractPropertyKeys(results)
           direct == report \o <<Item("direct", "heading", <<>>, 0, <<>>, {})>>
                        \o RenderAll("direct", results)
       IN  IF KeysFound(keys)
           THEN \E order \in Orders(keys) :
                  /\ report' = direct \o <<Item("keys", "keys", <<>>, 0, <<>>, keys)>>
                  /\ keys_todo' = order
                  /\ IF order = <<>> THEN StartHttp ELSE StartProperty(order[1])
           ELSE /\ report' = direct
                /\ keys_todo' = <<>>
                /\ StartHttp
    /\ UNCHANGED <<cmd, stdout, li, exception, cmdVars, prog, targets, ti, tree,
                   prop_refs, http_calls, out, runs, not_found>>

\* lines 189-195 and 198: the property phase has returned for one key
PropertyDone ==
    /\ pc = "property"
    /\ BatchDone
    /\ prop_refs' = results
    /\ report' = report \o <<Item("keys", "property", Head(keys_todo), 0, <<>>, {})>>
                    \o RenderAll("keys", results)
    /\ keys_todo' = Tail(keys_todo)
    /\ IF Tail(keys_todo) = <<>> THEN StartHttp ELSE StartProperty(keys_todo[2])
    /\ UNCHANGED <<cmd, stdout, li, exception, cmdVars, keyVars, prog, targets, ti, tree,
                   http_calls, out, runs, not_found>>

\* lines 198-205: the HTTP phase has returned, the report is returned
HttpDone ==
    /\ pc = "http"
    /\ BatchDone
    /\ http_calls' = results
    /\ report' = report \o <<Item("http", "heading", <<>>, 0, <<>>, {})>>
                    \o RenderHttp(results)
    /\ pc' = "reported"
    /\ UNCHANGED <<cmd, cmdVars, parseVars, keyVars, execVars, prog, targets, ti, tree,
                   keys_todo, prop_refs, out, runs, calls, not_found>>

\* the caller of the tracker prints the report it got
PrintReport ==
    /\ pc = "reported"
    /\ out' = Append(out, [target |-> ti, kind |-> "report", body |-> report])
    /\ pc' = "main"
    /\ UNCHANGED <<cmd, cmdVars, parseVars, keyVars, execVars, prog, targets, ti, tree,
                   keys_todo, prop_refs, http_calls, report, runs, calls, not_found>>

\* rg_script.py lines 41-45
ScriptHeader ==
    /\ pc = "main"
    /\ prog = "script"
    /\ ti < Len(targets)
    /\ ti' = ti + 1
    /\ out' = Append(out, [target |-> ti + 1, kind |-> "header", body |-> <<>>])
    /\ pc' = "search1"
    /\ UNCHANGED <<cmd, cmdVars, parseVars, keyVars, execVars, prog, targets, tree,
                   keys_todo, prop_refs, http_calls, report, runs, calls, not_found>>

\* rg_script.py lines 47-58: the three searches of a target
ScriptArgs(t, k) ==
    CASE k = 1 -> [pattern |-> t.endpoint, file_types |-> NoneTypes]
      [] k = 2 -> [pattern |-> t.service_name, file_types |-> NoneTypes]
      [] OTHER -> [pattern |-> ScriptHttpPattern, file_types |-> SomeTypes(<<"java", "py">>)]

SearchPc == <<"search1", "search2", "search3", "main">>

\* rg_script.py lines 48-49, 52-53, 56-58 with run_ripgrep_search (lines 6-31)
ScriptSearch ==
    \E k \in 1..3 :
        /\ pc = SearchPc[k]
        /\ LET a == ScriptArgs(targets[ti], k)
               c == BuildCmd(a.pattern, a.file_types, DefaultBefore, DefaultAfter)
               label == [target |-> ti, kind |-> "label", body |-> <<>>]
           IN  /\ pattern' = a.pattern
               /\ file_types' = a.file_types
               /\ context_before' = DefaultBefore
               /\ context_after' = DefaultAfter
               /\ cmd' = c
               /\ \E o \in RunOn(tree, c, FALSE) :
                     /\ stdout' = o.stdout
                     /\ not_found' = NotFoundAt(o)
                     /\ CASE o.exc = "none" ->
                               /\ out' = out \o <<label, [target |-> ti, kind |-> "result",
                                                            body |-> o.stdout]>>
                               /\ pc' = SearchPc[k + 1]
                               /\ UNCHANGED exception
                          [] o.exc = "FileNotFoundError" ->
                               /\ out' = out \o <<label, [target |-> ti, kind |-> "error",
                                                            body |-> <<>>]>>
                               /\ pc' = "exit1"
                               /\ UNCHANGED exception
                          [] OTHER ->
                               /\ out' = Append(out, label)
                               /\ pc' = "raised"
                               /\ exception' = o.exc
        /\ runs' = runs + 1
        /\ UNCHANGED <<li, results, keyVars, execVars, prog, targets, ti, tree, keys_todo,
                       prop_refs, http_calls, report, calls>>

\* every target is done
Finish ==
    /\ pc = "main"
    /\ ti = Len(targets)
    /\ pc' = "done"
    /\ UNCHANGED <<cmd, cmdVars, parseVars, keyVars, execVars, runVars>>

Next ==
    \/ StartReport
    \/ TrackerInvoke
    \/ LiteralDone
    \/ PropertyDone
    \/ HttpDone
    \/ PrintReport
    \/ ScriptHeader
    \/ ScriptSearch
    \/ Finish

Spec == Init /\ [][Next]_vars

ToolNotFound == not_found # NotYet

\* C1: once an invocation has failed because the tool could not be found,
\* the run has stopped: no invocation has been made after the failing one,
\* no result or report has been printed after it, and nothing at all has
\* been printed for a later target.
C1_StopsWhenToolNotFound ==
    ToolNotFound =>
        /\ pc \in {"exit1", "raised"}
        /\ runs = not_found.at
        /\ Printed(out) = not_found.printed
        /\ \A i \in 1..Len(out) : out[i].target <= not_found.target

\* C1 witness: the tracker finds the tool missing after the literal phase of
\* its first url, with a second url still to come.
C1_Witness ==
    /\ prog = "tracker"
    /\ ToolNotFound
    /\ not_found.at > 3
    /\ ti < Len(targets)

SectionOf(sec) == LET in(it) == it.section = sec IN SelectSeq(report, in)

\* the lines a section of the report shows for a file
LinesShown(sec, f) ==
    LET in(it) == it.section = sec /\ it.kind = "line" /\ it.name = f
        sel == SelectSeq(report, in)
    IN  [k \in 1..Len(sel) |-> [line |-> sel[k].line, content |-> sel[k].content]]

Trimmed(ms) ==
    [k \in 1..Len(ms) |-> [line |-> ms[k].line, content |-> Strip(ms[k].content)]]

\* the items of the report after the last property heading of the keys section
LastPropertyBlock ==
    LET keys == SectionOf("keys")
        last == CHOOSE i \in 1..Len(keys) :
                    keys[i].kind = "property"
                    /\ \A j \in (i + 1)..Len(keys) : keys[j].kind # "property"
    IN  SubSeq(keys, last + 1, Len(keys))

\* C7: in a finished report the HTTP section shows, for each file of
\* http_calls, the first 3 of its Matches in order and no more, and shows no
\* other file; http_calls itself holds every Match the tool reported in the
\* HTTP phase; the direct-reference section and a property block show every
\* Match of their files.
C7_HttpSectionShowsFirstThree ==
    pc = "reported" =>
        /\ \A i \in 1..Len(http_calls) :
              LET ms == http_calls[i].matches
              IN  LinesShown("http", http_calls[i].file)
                      = Trimmed(SubSeq(ms, 1, IF Len(ms) < 3 THEN Len(ms) ELSE 3))
        /\ \A i \in 1..Len(report) :
              report[i].section = "http" /\ report[i].kind # "heading"
                  => HasEntry(http_calls, report[i].name)
        /\ {http_calls[i].file : i \in 1..Len(http_calls)} = EmittedPaths
        /\ \A p \in EmittedPaths :
              Stripped(MatchesOf(http_calls, p)) = EmittedMatchesFor(p)
        /\ \A i \in 1..Len(search_results) :
              LinesShown("direct", search_results[i].file)
                  = Trimmed(search_results[i].matches)
        /\ property_keys # {} => LastPropertyBlock = RenderAll("keys", prop_refs)

\* C7 witness: a finished report whose HTTP phase found more than 3 Matches
\* in one file (from two invocations), of which the section shows 3, and
\* whose direct section shows more than 3 Matches of one file.
C7_Witness ==
    /\ pc = "reported"
    /\ \E i \in 1..Len(http_calls) :
          /\ Len(http_calls[i].matches) > 3
          /\ Len(LinesShown("http", http_calls[i].file)) = 3
          /\ \E k \in 1..Len(http_calls[i].matches) :
                http_calls[i].matches[k].pattern # http_calls[i].matches[1].pattern
    /\ \E i \in 1..Len(search_results) :
          Len(LinesShown("direct", search_results[i].file)) > 3

SectionRank(sec) ==
    CASE sec = "header" -> 1 [] sec = "direct" -> 2 [] sec = "keys" -> 3 [] OTHER -> 4

PropertyHeadings ==
    LET in(it) == it.section = "keys" /\ it.kind = "property"
    IN  SelectSeq(report, in)

\* C8: a finished report is its header, then the direct-reference section,
\* then the property-key section, then the HTTP section, and the phases were
\* called in that order: the literal phase for the url, the property phase
\* once per extracted key, the HTTP phase.  The header and the two headings
\* are always there; the property-key section (the keys line and one block
\* per key, in the order the property phase was called) is there if and only
\* if the extracted set is non-empty.
C8_SectionsInFixedOrder ==
    pc = "reported" =>
        /\ \A i, j \in 1..Len(report) :
              i < j => SectionRank(report[i].section) <= SectionRank(report[j].section)
        /\ SectionOf("header") = ReportHeader(targets[ti])
        /\ Len(SectionOf("direct")) >= 1 /\ SectionOf("direct")[1].kind = "heading"
        /\ Len(SectionOf("http")) >= 1 /\ SectionOf("http")[1].kind = "heading"
        /\ SectionOf("keys") # <<>> <=> property_keys # {}
        /\ property_keys # {} =>
              /\ SectionOf("keys")[1].kind = "keys"
              /\ SectionOf("keys")[1].keys = property_keys
              /\ SectionOf("keys")[2].kind = "property"
        /\ Len(calls) = Cardinality(property_keys) + 2
        /\ calls[1] = [phase |-> "literal", arg |-> targets[ti]]
        /\ calls[Len(calls)].phase = "http"
        /\ \A i \in 2..(Len(calls) - 1) : calls[i].phase = "property"
        /\ {c.arg : c \in {calls[i] : i \in 2..(Len(calls) - 1)}} = property_keys
        /\ Len(PropertyHeadings) = Cardinality(property_keys)
        /\ \A i \in 1..Len(PropertyHeadings) : PropertyHeadings[i].name = calls[i + 1].arg

\* C8 witness: a report with two property keys has been printed for the first
\* url and a report with no match in any phase is finished for the second.
C8_Witness ==
    /\ pc = "reported"
    /\ Len(out) = 1
    /\ \E i \in 1..Len(out[1].body) :
          out[1].body[i].kind = "keys" /\ Cardinality(out[1].body[i].keys) = 2
    /\ Len(report) = 3
    /\ property_keys = {}

====
